---- MODULE Spec2Model ----
(***************************************************************************)
(* a2a-cli: the streaming renderer (src/a2a_cli/streaming.py stream_task)  *)
(* and the interactive shell around it (src/a2a_cli/main.py main).         *)
(*                                                                         *)
(* A stream (stdout, stderr) is the sequence of writes made to it.  A      *)
(* write is what one click.echo / print call appends: the text (a sequence *)
(* of characters or of opaque line fragments), the style click.style put   *)
(* on it, whether a newline is appended, and the number of the event       *)
(* during whose handling the call was made.                                *)
(***************************************************************************)
EXTENDS Naturals, Sequences, FiniteSets

\* ------------------------------------------------------------------ bounds
\* Number of events the event sequence yields at most.
MaxEvents == 2

\* ------------------------------------------------------------ input domains
NL == "\n"
Chars == {"a", NL}
\* Texts of text parts: the empty text and the one-character texts.
Texts == {<<>>} \cup {<<c>> : c \in Chars}

TextPart(t) == [type |-> "TextPart", text |-> t]
FilePart == [type |-> "FilePart"]
Parts == {TextPart(t) : t \in Texts} \cup {FilePart}

\* Part lists of an artifact or of a status message: at most one part.
ShortPartLists == {<<>>} \cup {<<p>> : p \in Parts}
\* Part lists of a Final Message: at most two parts.
MessagePartLists == ShortPartLists \cup {<<p, q>> : p \in Parts, q \in Parts}

TaskIds == {"T1", "T2"}
ArtifactNames == {"final_output_total", "tool_result", "partial"}
TaskStates == {"working"}

None == [type |-> "None"]
Message(ps) == [type |-> "Message", parts |-> ps]
Task(id) == [type |-> "Task", id |-> id]
TaskArtifactUpdateEvent(nm, ps) ==
    [type |-> "TaskArtifactUpdateEvent", artifact |-> [name |-> nm, parts |-> ps]]
TaskStatusUpdateEvent(s, m) ==
    [type |-> "TaskStatusUpdateEvent", status |-> [state |-> s, message |-> m]]
Pair(t, u) == [type |-> "tuple", len |-> 2, task |-> t, update |-> u]

FinalMessages == {Message(ps) : ps \in MessagePartLists}
ArtifactUpdates ==
    {TaskArtifactUpdateEvent(nm, ps) : nm \in ArtifactNames, ps \in ShortPartLists}
StatusUpdates ==
    {TaskStatusUpdateEvent(s, m) :
        s \in TaskStates, m \in {None} \cup {Message(ps) : ps \in ShortPartLists}}
\* A pair whose update is None, a tuple that is no pair, and a bare Task.
UnknownEvents ==
    {Pair(Task(t), None) : t \in TaskIds}
        \cup {[type |-> "tuple", len |-> 3], Task("T1")}
Events ==
    FinalMessages
        \cup {Pair(Task(t), u) : t \in TaskIds, u \in ArtifactUpdates \cup StatusUpdates}
        \cup UnknownEvents

\* Exceptions the event sequence can raise while it is iterated.
IteratorErrors == {"A2AClientError", "ReadError", "StreamError", "RuntimeError"}

\* ------------------------------------------------------------- exceptions
NoException == "none"

\* The classes an exception is an instance of (httpx and a2a.client.errors):
\* ReadError is an httpx.HTTPError, httpx.StreamError is a RuntimeError.
Bases(e) ==
    CASE e = "A2AClientError" -> {"A2AClientError", "Exception"}
      [] e = "ReadError" -> {"ReadError", "TransportError", "HTTPError", "Exception"}
      [] e = "StreamError" -> {"StreamError", "RuntimeError", "Exception"}
      [] OTHER -> {e, "Exception"}

\* except (A2AClientError, httpx.HTTPError, httpx.StreamError)
CatchesOnlyClientError(e) == "A2AClientError" \in Bases(e)
CatchesEverything(e) == "Exception" \in Bases(e)
Catches(e) == Bases(e) \cap {"A2AClientError", "HTTPError", "StreamError"} # {}

\* ----------------------------------------------------------- click / print
\* click.style(text, fg=fg, bold=bold) written by click.echo(..., nl=nl).
Write(text, fg, bold, nl, k) ==
    [text |-> text, fg |-> fg, bold |-> bold, nl |-> nl, ev |-> k]

EchoFirst(stream, w) == <<w>> \o stream
Echo(stream, w) == Append(stream, w)

\* click.echo(): an empty line.
Newline(k) == Write(<<>>, "", FALSE, TRUE, k)

\* print(update): repr(update) is one line naming the class of the update.
Repr(u) == <<"repr", u.type>>
PrintUpdate(stream, u, k) == Echo(stream, Write(Repr(u), "", FALSE, TRUE, k))

\* The characters a stream holds, styling aside.
RECURSIVE Flat(_)
Flat(stream) ==
    IF stream = <<>> THEN <<>>
    ELSE LET w == stream[Len(stream)]
         IN  Flat(SubSeq(stream, 1, Len(stream) - 1))
                 \o w.text \o (IF w.nl THEN <<NL>> ELSE <<>>)

\* text.endswith("\n")
EndsWithNewline(text) == text # <<>> /\ text[Len(text)] = NL

\* ------------------------------------------------------------------ utils
\* get_text(msg): "" for no message, else msg.parts[0].root.text, which
\* raises IndexError on no parts and AttributeError on a non-text first part.
GetTextRaises(msg) ==
    IF msg = None THEN NoException
    ELSE IF msg.parts = <<>> THEN "IndexError"
    ELSE IF msg.parts[1].type # "TextPart" THEN "AttributeError"
    ELSE NoException
GetText(msg) == IF msg = None THEN <<>> ELSE msg.parts[1].text

\* ------------------------------------------------------------ stream_task
VARIABLES
    pc,                  \* "iter": in the async for; "returned"; "raised"
    exc,                 \* the exception raised in the call, NoException if none
    consumed,            \* the events the event sequence has yielded so far
    task_id,             \* the cached task id, "None" until the first pair
    artifact_open_line,  \* the open-line flag
    stdout,              \* what the call has written to the primary stream
    stderr,              \* what the call has written to the diagnostic stream
    sends,               \* how often the call has called client.send_message
    context_id,          \* the context_id argument of the call, 0 before any call
    closing,             \* the writes of the call's last statements, in order
    shell,               \* main(): "prompt", "streaming", "break", "exited"; "direct": no shell
    user_input,          \* what the latest prompt gave, stripped
    should_continue,     \* what the latest handle_slash_command returned
    session,             \* the A2ASession
    http_open,           \* the httpx.AsyncClient objects that are open
    created,             \* how many AsyncClient objects and uuid4 values were made
    inputs,              \* how many lines the prompt has returned
    crash                \* the exception that left main(), NoException if none

callvars ==
    <<pc, exc, consumed, task_id, artifact_open_line, stdout, stderr, sends,
      context_id, closing>>
shellvars ==
    <<shell, user_input, should_continue, session, http_open, created, inputs, crash>>
vars == <<callvars, shellvars>>

\* The renderer's locals and what it has written, with the exception raised
\* while handling the event (NoException: the loop goes on).
Result(tid, open, out, err, e) ==
    [task_id |-> tid, open |-> open, out |-> out, err |-> err, exc |-> e]

\* if artifact_open_line: click.echo()
CloseLineNever(out, open, k) == out
CloseLineAlways(out, open, k) == Echo(out, Newline(k))
CloseLine(out, open, k) == IF open THEN Echo(out, Newline(k)) ELSE out

\* for part in parts: if isinstance(part.root, TextPart): click.echo(style(text), nl=nl)
RECURSIVE EchoTextParts(_, _, _, _, _)
EchoTextParts(out, parts, fg, nl, k) ==
    IF parts = <<>> THEN out
    ELSE LET p == Head(parts)
             o == IF p.type = "TextPart"
                  THEN Echo(out, Write(p.text, fg, FALSE, nl, k)) ELSE out
         IN  EchoTextParts(o, Tail(parts), fg, nl, k)

\* trailing_newline after the loop over the parts: that of the last text part.
RECURSIVE TrailingNewline(_, _)
TrailingNewline(parts, sofar) ==
    IF parts = <<>> THEN sofar
    ELSE LET p == Head(parts)
         IN  TrailingNewline(Tail(parts),
                 IF p.type = "TextPart" THEN EndsWithNewline(p.text) ELSE sofar)

\* isinstance(event, Message)
HandleMessage(ev, tid, open, out, err, k) ==
    Result(tid, FALSE,
           EchoTextParts(CloseLine(out, open, k), ev.parts, "bright_white", TRUE, k),
           err, NoException)

\* if task_id is None: task_id = task.id; echo "Task ID: ..." to stderr
AnnounceAlways(tid, task, err, k) ==
    [task_id |-> task.id,
     err |-> Echo(err, Write(<<"Task ID: ", task.id>>, "cyan", TRUE, TRUE, k))]
Announce(tid, task, err, k) ==
    IF tid = "None"
    THEN [task_id |-> task.id,
          err |-> Echo(err, Write(<<"Task ID: ", task.id>>, "cyan", TRUE, TRUE, k))]
    ELSE [task_id |-> tid, err |-> err]

\* force_newline: set for the artifact name "tool_result"
ForceNewlineNever(name) == FALSE
ForceNewline(name) == name = "tool_result"

\* isinstance(update, TaskArtifactUpdateEvent)
HandleArtifact(update, tid, open, out, err, k) ==
    IF update.artifact.name = "final_output_total"
    THEN Result(tid, open, out, err, NoException)
    ELSE LET name == update.artifact.name
             color == IF ForceNewline(name) THEN "cyan" ELSE "green"
             trailing_newline == TrailingNewline(update.artifact.parts, FALSE)
             o == EchoTextParts(out, update.artifact.parts, color, FALSE, k)
         IN  IF ForceNewline(name) /\ ~trailing_newline
             THEN Result(tid, FALSE, Echo(o, Newline(k)), err, NoException)
             ELSE Result(tid, ~trailing_newline, o, err, NoException)

\* isinstance(update, TaskStatusUpdateEvent)
HandleStatusNoClose(update, tid, open, out, err, k) ==
    Result(tid, FALSE, out,
           Echo(err, Write(<<"Status: ", update.status.state>>, "yellow", TRUE, TRUE, k)),
           NoException)
HandleStatus(update, tid, open, out, err, k) ==
    LET o == CloseLine(out, open, k)
        e1 == Echo(err, Write(<<"Status: ", update.status.state>>, "yellow", TRUE, TRUE, k))
        raised == GetTextRaises(update.status.message)
        message_text == GetText(update.status.message)
    IN  IF raised # NoException THEN Result(tid, FALSE, o, e1, raised)
        ELSE IF message_text # <<>>
        THEN Result(tid, FALSE, o,
                    Echo(e1, Write(message_text, "yellow", FALSE, TRUE, k)), NoException)
        ELSE Result(tid, FALSE, o, e1, NoException)

\* isinstance(event, tuple): task, update = event; print(update); ...
HandleTuple(ev, tid, open, out, err, k) ==
    IF ev.len # 2 THEN Result(tid, open, out, err, "ValueError")
    ELSE LET o == PrintUpdate(out, ev.update, k)
             a == Announce(tid, ev.task, err, k)
         IN  IF ev.update.type = "TaskArtifactUpdateEvent"
             THEN HandleArtifact(ev.update, a.task_id, open, o, a.err, k)
             ELSE IF ev.update.type = "TaskStatusUpdateEvent"
             THEN HandleStatus(ev.update, a.task_id, open, o, a.err, k)
             ELSE Result(a.task_id, open, o, a.err, NoException)

\* The body of the async for, for one event.
HandleEvent(ev, tid, open, out, err, k) ==
    IF ev.type = "Message" THEN HandleMessage(ev, tid, open, out, err, k)
    ELSE IF ev.type = "tuple" THEN HandleTuple(ev, tid, open, out, err, k)
    ELSE Result(tid, open, out, err, NoException)

\* except (A2AClientError, httpx.HTTPError, httpx.StreamError) as e: ... return
ConnectionLost(e, k) ==
    << Write(<<"Connection lost">>, "red", TRUE, TRUE, k),
       Write(<<"  Server disconnected: ", e>>, "red", FALSE, TRUE, k),
       Write(<<"  The agent may have crashed or restarted.">>, "bright_black", FALSE, TRUE, k) >>

\* in the except clause: if artifact_open_line: click.echo();  click.echo()
CloseOnFailureNoBreak(out, open, k) == Echo(out, Newline(k))
CloseOnFailure(out, open, k) == Echo(CloseLine(out, open, k), Newline(k))

\* The statements of the except clause as writes in statement order, each
\* with the stream it goes to.
Tagged(name, ws) == [i \in 1..Len(ws) |-> [stream |-> name, w |-> ws[i]]]
ExceptClause(open, e, k) ==
    Tagged("stdout", CloseOnFailure(<<>>, open, k)) \o Tagged("stderr", ConnectionLost(e, k))

\* after the try: if artifact_open_line: click.echo();  click.echo("")
FinishNoBlank(out, open, k) == CloseLine(out, open, k)
Finish(out, open, k) == Echo(CloseLine(out, open, k), Newline(k))

\* user_input before the first prompt has returned.
NoInput == [got |-> "nothing", words |-> <<>>]

\* A2ASession.__init__
NewSession ==
    [agent_url |-> "None", agent_card |-> "None", httpx_client |-> 0,
     client |-> 0, context_id |-> 0]

\* The first statements of stream_task: the locals of a fresh call.
CallStarts ==
    /\ pc = "iter"
    /\ exc = NoException
    /\ consumed = <<>>
    /\ task_id = "None"
    /\ artifact_open_line = FALSE
    /\ stdout = <<>>
    /\ stderr = <<>>
    /\ sends = 1
    /\ context_id = 1
    /\ closing = <<>>

\* stream_task of streaming.py called on its own, outside the shell.
Init ==
    /\ CallStarts
    /\ shell = "direct"
    /\ user_input = NoInput
    /\ should_continue = TRUE
    /\ session = NewSession
    /\ http_open = {}
    /\ created = [clients |-> 0, uuids |-> 0]
    /\ inputs = 0
    /\ crash = NoException

\* async for event in resp: the sequence yields an event and the body runs.
NextEvent ==
    /\ shell = "direct"
    /\ pc = "iter"
    /\ Len(consumed) < MaxEvents
    /\ \E ev \in Events :
         LET k == Len(consumed) + 1
             r == HandleEvent(ev, task_id, artifact_open_line, stdout, stderr, k)
         IN  /\ consumed' = Append(consumed, ev)
             /\ task_id' = r.task_id
             /\ artifact_open_line' = r.open
             /\ stdout' = r.out
             /\ stderr' = r.err
             /\ exc' = r.exc
             /\ pc' = IF r.exc = NoException THEN "iter" ELSE "raised"
    /\ UNCHANGED <<sends, context_id, closing, shellvars>>

\* The sequence is exhausted: the code after the try.
Exhausted ==
    /\ shell = "direct"
    /\ pc = "iter"
    /\ pc' = "returned"
    /\ stdout' = Finish(stdout, artifact_open_line, Len(consumed) + 1)
    /\ closing' = Tagged("stdout", Finish(<<>>, artifact_open_line, Len(consumed) + 1))
    /\ UNCHANGED <<exc, consumed, task_id, artifact_open_line, stderr, sends, context_id>>
    /\ UNCHANGED shellvars

\* The sequence raises: the except clause, or the exception leaves the call.
IteratorRaises ==
    /\ shell = "direct"
    /\ pc = "iter"
    /\ \E e \in IteratorErrors :
         /\ exc' = e
         /\ IF Catches(e)
            THEN /\ pc' = "returned"
                 /\ stdout' = CloseOnFailure(stdout, artifact_open_line, Len(consumed) + 1)
                 /\ stderr' = stderr \o ConnectionLost(e, Len(consumed) + 1)
                 /\ closing' = ExceptClause(artifact_open_line, e, Len(consumed) + 1)
            ELSE /\ pc' = "raised"
                 /\ UNCHANGED <<stdout, stderr, closing>>
    /\ UNCHANGED <<consumed, task_id, artifact_open_line, sends, context_id>>
    /\ UNCHANGED shellvars

Next == NextEvent \/ Exhausted \/ IteratorRaises

Spec == Init /\ [][Next]_vars

\* ---------------------------------------------------------------- session
\* The session with the AsyncClient objects that are open and the counts of
\* objects made so far.
World(sess, open, made) == [session |-> sess, http_open |-> open, created |-> made]

\* A2ASession.is_connected
IsConnectedAlways(sess) == TRUE
IsConnected(sess) == sess.client # 0

\* A2ASession.disconnect
DisconnectKeepsCard(w) ==
    World([NewSession EXCEPT !.agent_card = w.session.agent_card],
          IF w.session.httpx_client # 0
          THEN w.http_open \ {w.session.httpx_client} ELSE w.http_open,
          w.created)
Disconnect(w) ==
    World(NewSession,
          IF w.session.httpx_client # 0
          THEN w.http_open \ {w.session.httpx_client} ELSE w.http_open,
          w.created)

Urls == {"u1", "u2"}
CardOf(url) == IF url = "u1" THEN "card1" ELSE "card2"
\* How a connect ends: the AsyncClient cannot be made, the card cannot be
\* fetched, the client cannot be built from the card, or all steps succeed.
ConnectOutcomes == {"httpx_fails", "card_fails", "create_fails", "ok"}

\* connect up to the await of get_agent_card: the old connection is closed
\* and a new AsyncClient is open.
ConnectOpened(w) ==
    LET d == Disconnect(w)
        c == d.created.clients + 1
    IN  World([d.session EXCEPT !.httpx_client = c],
              d.http_open \cup {c},
              [d.created EXCEPT !.clients = c])

\* A2ASession.connect: the world after it and what it returns.
ConnectNoCleanup(w, url, outcome) ==
    IF outcome = "ok"
    THEN LET o == ConnectOpened(w)
             u == o.created.uuids + 1
         IN  [world |-> World([o.session EXCEPT
                                  !.agent_card = CardOf(url), !.client = o.session.httpx_client,
                                  !.agent_url = url, !.context_id = u],
                              o.http_open, [o.created EXCEPT !.uuids = u]),
              ok |-> TRUE]
    ELSE [world |-> ConnectOpened(w), ok |-> FALSE]
Connect(w, url, outcome) ==
    LET d == Disconnect(w)
        c == d.created.clients + 1
        opened == ConnectOpened(w)
        carded == [opened EXCEPT !.session.agent_card = CardOf(url)]
        u == d.created.uuids + 1
    IN  CASE outcome = "httpx_fails" -> [world |-> Disconnect(d), ok |-> FALSE]
          [] outcome = "card_fails" -> [world |-> Disconnect(opened), ok |-> FALSE]
          [] outcome = "create_fails" -> [world |-> Disconnect(carded), ok |-> FALSE]
          [] OTHER ->
               [world |-> World([carded.session EXCEPT
                                    !.client = c, !.agent_url = url, !.context_id = u],
                                carded.http_open,
                                [carded.created EXCEPT !.uuids = u]),
                ok |-> TRUE]

\* A2ASession.reset_context
ResetContextSame(w) == w
ResetContext(w) ==
    LET u == w.created.uuids + 1
    IN  World([w.session EXCEPT !.context_id = u], w.http_open,
              [w.created EXCEPT !.uuids = u])

\* --------------------------------------------------------------- commands
\* A line the prompt returns: words separated by blanks, with or without
\* blanks around them.
Words ==
    {"/help", "/?", "/connect", "/disconnect", "/status", "/card", "/reset",
     "/new", "/quit", "/exit", "/QUIT", "/bogus", "hello"}
Line(pad, ws) == [type |-> "line", pad |-> pad, words |-> ws]
Lines ==
    {Line(pad, ws) :
        pad \in BOOLEAN,
        ws \in {<<>>} \cup {<<w>> : w \in Words} \cup {<<"/connect", u>> : u \in Urls}}

\* str.strip(), str.startswith("/"), str.lower()
Strip(line) == line.words
StartsWithSlashKnownOnly(ws) == ws # <<>> /\ ws[1] \notin {"hello", "/bogus"} \cup Urls
StartsWithSlash(ws) == ws # <<>> /\ ws[1] \notin {"hello"} \cup Urls
LowerNot(word) == word
Lower(word) == IF word = "/QUIT" THEN "/quit" ELSE word

\* handle_slash_command: the world after it and whether the CLI continues.
HandleSlashCommand(w, ws, outcome) ==
    LET cmd == Lower(ws[1])
        arg == Tail(ws)
    IN  CASE cmd \in {"/help", "/?"} -> [world |-> w, continue |-> TRUE]
          [] cmd = "/connect" ->
               IF arg = <<>> THEN [world |-> w, continue |-> TRUE]
               ELSE [world |-> Connect(w, arg[1], outcome).world, continue |-> TRUE]
          [] cmd = "/disconnect" ->
               [world |-> IF IsConnected(w.session) THEN Disconnect(w) ELSE w,
                continue |-> TRUE]
          [] cmd \in {"/status", "/card"} -> [world |-> w, continue |-> TRUE]
          [] cmd \in {"/reset", "/new"} ->
               [world |-> IF IsConnected(w.session) THEN ResetContext(w) ELSE w,
                continue |-> TRUE]
          [] cmd \in {"/quit", "/exit"} ->
               [world |-> IF IsConnected(w.session) THEN Disconnect(w) ELSE w,
                continue |-> FALSE]
          [] OTHER -> [world |-> w, continue |-> TRUE]

\* ------------------------------------------------- stream_task of main.py
\* main() calls the stream_task that main.py itself defines.  Its handling
\* of a Final Message, of the task id and of a status update is the same
\* code as in streaming.py; it has no print(update), no tool_result
\* treatment and no try/except.
MainHandleArtifact(update, tid, open, out, err, k) ==
    IF update.artifact.name = "final_output_total"
    THEN Result(tid, open, out, err, NoException)
    ELSE Result(tid, ~TrailingNewline(update.artifact.parts, FALSE),
                EchoTextParts(out, update.artifact.parts, "green", FALSE, k),
                err, NoException)

MainHandleEvent(ev, tid, open, out, err, k) ==
    IF ev.type = "Message" THEN HandleMessage(ev, tid, open, out, err, k)
    ELSE IF ev.type = "tuple"
    THEN IF ev.len # 2 THEN Result(tid, open, out, err, "ValueError")
         ELSE LET a == Announce(tid, ev.task, err, k)
              IN  IF ev.update.type = "TaskArtifactUpdateEvent"
                  THEN MainHandleArtifact(ev.update, a.task_id, open, out, a.err, k)
                  ELSE IF ev.update.type = "TaskStatusUpdateEvent"
                  THEN HandleStatus(ev.update, a.task_id, open, out, a.err, k)
                  ELSE Result(a.task_id, open, out, a.err, NoException)
    ELSE Result(tid, open, out, err, NoException)

\* ------------------------------------------------------------------ main
\* Number of lines the prompt returns at most.
MaxInputs == 3

\* The events a stream yields in the shell: one of each shape.
ShellEvents ==
    { Message(<<TextPart(<<"a">>)>>),
      Pair(Task("T1"), TaskArtifactUpdateEvent("partial", <<TextPart(<<"a">>)>>)),
      Pair(Task("T1"), TaskStatusUpdateEvent("working", None)),
      Pair(Task("T1"), TaskStatusUpdateEvent("working", Message(<<>>))) }

\* main() at its first prompt, started without --agent-url.
ShellInit ==
    /\ pc = "idle"
    /\ exc = NoException
    /\ consumed = <<>>
    /\ task_id = "None"
    /\ artifact_open_line = FALSE
    /\ stdout = <<>>
    /\ stderr = <<>>
    /\ sends = 0
    /\ context_id = 0
    /\ closing = <<>>
    /\ shell = "prompt"
    /\ user_input = NoInput
    /\ should_continue = TRUE
    /\ session = NewSession
    /\ http_open = {}
    /\ created = [clients |-> 0, uuids |-> 0]
    /\ inputs = 0
    /\ crash = NoException

TheWorld == World(session, http_open, created)
SetWorld(w) ==
    /\ session' = w.session
    /\ http_open' = w.http_open
    /\ created' = w.created

\* finally: if session.is_connected(): await session.disconnect()
Finally(w) == IF IsConnected(w.session) THEN Disconnect(w) ELSE w

\* An exception e leaves the while loop: neither except clause of main()
\* takes it, the finally clause runs and main() ends with it.
LoopDies(e) ==
    /\ shell' = "exited"
    /\ crash' = e
    /\ SetWorld(Finally(TheWorld))

\* prompt_async raises KeyboardInterrupt (Ctrl+C): break.
PromptInterrupted ==
    /\ shell = "prompt"
    /\ inputs < MaxInputs
    /\ inputs' = inputs + 1
    /\ user_input' = [got |-> "KeyboardInterrupt", words |-> <<>>]
    /\ shell' = "break"
    /\ UNCHANGED <<callvars, should_continue, session, http_open, created, crash>>

\* prompt_async raises EOFError (Ctrl+D): the outer except, then finally.
PromptEOF ==
    /\ shell = "prompt"
    /\ inputs < MaxInputs
    /\ inputs' = inputs + 1
    /\ user_input' = [got |-> "EOFError", words |-> <<>>]
    /\ shell' = "exited"
    /\ SetWorld(Finally(TheWorld))
    /\ UNCHANGED <<callvars, should_continue, crash>>

\* prompt_async returns a line that is empty once stripped: continue.
BlankLine ==
    /\ shell = "prompt"
    /\ inputs < MaxInputs
    /\ \E line \in Lines :
         /\ Strip(line) = <<>>
         /\ user_input' = [got |-> "line", words |-> Strip(line)]
    /\ inputs' = inputs + 1
    /\ UNCHANGED <<callvars, shell, should_continue, session, http_open, created, crash>>

\* prompt_async returns a slash command: handle_slash_command runs, and the
\* loop goes on or breaks by what it returns.
SlashCommand ==
    /\ shell = "prompt"
    /\ inputs < MaxInputs
    /\ \E line \in Lines, outcome \in ConnectOutcomes :
         LET r == HandleSlashCommand(TheWorld, Strip(line), outcome)
         IN  /\ StartsWithSlash(Strip(line))
             /\ user_input' = [got |-> "line", words |-> Strip(line)]
             /\ should_continue' = r.continue
             /\ SetWorld(r.world)
             /\ shell' = IF r.continue THEN "prompt" ELSE "break"
    /\ inputs' = inputs + 1
    /\ UNCHANGED <<callvars, crash>>

\* Ctrl+C while /connect awaits the agent card: the interrupt reaches the
\* coroutine as KeyboardInterrupt or as the CancelledError asyncio makes of
\* it.  Neither is an Exception, so connect's except clause does not run;
\* the loop catches the first and breaks, the second leaves main().
Interrupts == {"KeyboardInterrupt", "CancelledError"}
ConnectInterrupted ==
    /\ shell = "prompt"
    /\ inputs < MaxInputs
    /\ \E line \in Lines, e \in Interrupts :
         LET ws == Strip(line)
         IN  /\ StartsWithSlash(ws)
             /\ Lower(ws[1]) = "/connect"
             /\ Tail(ws) # <<>>
             /\ user_input' = [got |-> "line", words |-> ws]
             /\ IF e = "KeyboardInterrupt"
                THEN /\ shell' = "break"
                     /\ SetWorld(ConnectOpened(TheWorld))
                     /\ UNCHANGED crash
                ELSE /\ shell' = "exited"
                     /\ crash' = e
                     /\ SetWorld(Finally(ConnectOpened(TheWorld)))
    /\ inputs' = inputs + 1
    /\ UNCHANGED <<callvars, should_continue>>

\* break: the loop is left, the finally clause runs and main() ends.
LeaveLoop ==
    /\ shell = "break"
    /\ shell' = "exited"
    /\ SetWorld(Finally(TheWorld))
    /\ UNCHANGED <<callvars, user_input, should_continue, inputs, crash>>

\* prompt_async returns other text while no agent is connected: continue.
TextNotConnected ==
    /\ shell = "prompt"
    /\ inputs < MaxInputs
    /\ \E line \in Lines :
         /\ Strip(line) # <<>> /\ ~StartsWithSlash(Strip(line))
         /\ user_input' = [got |-> "line", words |-> Strip(line)]
    /\ ~IsConnected(session)
    /\ inputs' = inputs + 1
    /\ UNCHANGED <<callvars, shell, should_continue, session, http_open, created, crash>>

\* prompt_async returns other text while connected: stream_task is called
\* with the session's client and context id and sends the message.
TextSent ==
    /\ shell = "prompt"
    /\ inputs < MaxInputs
    /\ \E line \in Lines :
         /\ Strip(line) # <<>> /\ ~StartsWithSlash(Strip(line))
         /\ user_input' = [got |-> "line", words |-> Strip(line)]
    /\ IsConnected(session)
    /\ inputs' = inputs + 1
    /\ shell' = "streaming"
    /\ pc' = "iter"
    /\ exc' = NoException
    /\ consumed' = <<>>
    /\ task_id' = "None"
    /\ artifact_open_line' = FALSE
    /\ stdout' = <<>>
    /\ stderr' = <<>>
    /\ sends' = 1
    /\ context_id' = session.context_id
    /\ closing' = <<>>
    /\ UNCHANGED <<should_continue, session, http_open, created, crash>>

\* The stream yields an event to main.py's stream_task.
ShellNextEvent ==
    /\ shell = "streaming"
    /\ pc = "iter"
    /\ Len(consumed) < MaxEvents
    /\ \E ev \in ShellEvents :
         LET k == Len(consumed) + 1
             r == MainHandleEvent(ev, task_id, artifact_open_line, stdout, stderr, k)
         IN  /\ consumed' = Append(consumed, ev)
             /\ task_id' = r.task_id
             /\ artifact_open_line' = r.open
             /\ stdout' = r.out
             /\ stderr' = r.err
             /\ exc' = r.exc
             /\ pc' = IF r.exc = NoException THEN "iter" ELSE "raised"
    /\ UNCHANGED <<sends, context_id, closing, shellvars>>

\* The stream is exhausted: stream_task returns and the loop prompts again.
ShellExhausted ==
    /\ shell = "streaming"
    /\ pc = "iter"
    /\ pc' = "returned"
    /\ stdout' = Finish(stdout, artifact_open_line, Len(consumed) + 1)
    /\ closing' = Tagged("stdout", Finish(<<>>, artifact_open_line, Len(consumed) + 1))
    /\ shell' = "prompt"
    /\ UNCHANGED <<exc, consumed, task_id, artifact_open_line, stderr, sends, context_id>>
    /\ UNCHANGED <<user_input, should_continue, session, http_open, created, inputs, crash>>

\* The stream raises: main.py's stream_task has no handler, the exception
\* leaves the call.
ShellIteratorRaises ==
    /\ shell = "streaming"
    /\ pc = "iter"
    /\ \E e \in IteratorErrors :
         /\ exc' = e
         /\ pc' = "raised"
    /\ UNCHANGED <<consumed, task_id, artifact_open_line, stdout, stderr, sends,
                   context_id, closing>>
    /\ UNCHANGED shellvars

\* The exception of the call reaches the while loop of main().
ShellCallRaised ==
    /\ shell = "streaming"
    /\ pc = "raised"
    /\ LoopDies(exc)
    /\ UNCHANGED <<callvars, user_input, should_continue, inputs>>

ShellNext ==
    \/ PromptInterrupted
    \/ PromptEOF
    \/ BlankLine
    \/ SlashCommand
    \/ ConnectInterrupted
    \/ LeaveLoop
    \/ TextNotConnected
    \/ TextSent
    \/ ShellNextEvent
    \/ ShellExhausted
    \/ ShellIteratorRaises
    \/ ShellCallRaised

SpecShell == ShellInit /\ [][ShellNext]_vars

\* ------------------------------------------------- vocabulary of the claims
\* The words that start with "/", and those that are /quit or /exit when
\* compared without case.
CommandWords ==
    {"/help", "/?", "/connect", "/disconnect", "/status", "/card", "/reset",
     "/new", "/quit", "/exit", "/QUIT", "/bogus"}
QuitWords == {"/quit", "/exit", "/QUIT"}
\* The latest prompt gave a line, and the line is a command, is blank, is
\* other text.
GotLine(inp) == inp.got = "line"
IsCommand(inp) == GotLine(inp) /\ inp.words # <<>> /\ inp.words[1] \in CommandWords
IsBlank(inp) == GotLine(inp) /\ inp.words = <<>>
IsOtherText(inp) == GotLine(inp) /\ inp.words # <<>> /\ inp.words[1] \notin CommandWords
IsFinalMessage(ev) == ev.type = "Message"
IsPair(ev) == ev.type = "tuple" /\ ev.len = 2
IsArtifactUpdate(ev) == IsPair(ev) /\ ev.update.type = "TaskArtifactUpdateEvent"
IsStatusUpdate(ev) == IsPair(ev) /\ ev.update.type = "TaskStatusUpdateEvent"
IsNamed(ev, nm) == IsArtifactUpdate(ev) /\ ev.update.artifact.name = nm
IsPlainArtifact(ev) ==
    IsArtifactUpdate(ev)
        /\ ev.update.artifact.name \notin {"final_output_total", "tool_result"}
IsUnknown(ev) == ~IsFinalMessage(ev) /\ ~IsArtifactUpdate(ev) /\ ~IsStatusUpdate(ev)

\* The exceptions that are an A2AClientError, an httpx.HTTPError or an
\* httpx.StreamError.
TransportFailures == {"A2AClientError", "ReadError", "StreamError"}

Last(seq) == seq[Len(seq)]
Front(seq) == SubSeq(seq, 1, Len(seq) - 1)
RECURSIVE AtLineStart(_)
AtLineStart(stream) ==
    IF stream = <<>> THEN TRUE
    ELSE LET w == Last(stream)
         IN  IF w.nl THEN TRUE
             ELSE IF w.text # <<>> THEN Last(w.text) = NL
             ELSE AtLineStart(Front(stream))

\* The writes made to a stream while the events numbered lo..hi were handled.
WritesDuring(stream, lo, hi) ==
    LET During(w) == w.ev >= lo /\ w.ev <= hi IN SelectSeq(stream, During)

IsLine(w, prefix) == w.text # <<>> /\ w.text[1] = prefix
IsTaskIdLine(w) == IsLine(w, "Task ID: ")
IsStatusLine(w) == IsLine(w, "Status: ")
IsConnectionLostLine(w) == IsLine(w, "Connection lost")
IsFinalMessageText(w) == w.fg = "bright_white"

\* An artifact update that is written and whose last text part ends in a
\* newline.
ChunkEndedLine(ev) ==
    /\ IsArtifactUpdate(ev)
    /\ ~IsNamed(ev, "final_output_total")
    /\ LET IsText(p) == p.type = "TextPart"
           texts == SelectSeq(ev.update.artifact.parts, IsText)
       IN  texts # <<>> /\ EndsWithNewline(Last(texts).text)

\* The text parts of a part list, concatenated in order.
RECURSIVE ConcatText(_)
ConcatText(parts) ==
    IF parts = <<>> THEN <<>>
    ELSE (IF Head(parts).type = "TextPart" THEN Head(parts).text ELSE <<>>)
             \o ConcatText(Tail(parts))

\* The text parts of a run of artifact updates, concatenated in order.
RECURSIVE ConcatChunks(_)
ConcatChunks(evs) ==
    IF evs = <<>> THEN <<>>
    ELSE ConcatText(Head(evs).update.artifact.parts) \o ConcatChunks(Tail(evs))

\* The renderer's locals and output after the events evs, all handled
\* without an exception, in order, from the start of a call.
RECURSIVE Rendering(_)
Rendering(evs) ==
    IF evs = <<>> THEN Result("None", FALSE, <<>>, <<>>, NoException)
    ELSE LET r == Rendering(Front(evs))
         IN  HandleEvent(Last(evs), r.task_id, r.open, r.out, r.err, Len(evs))

\* ------------------------------------------------------------------ claims

\* C1: whenever the text of a Final Message or a "Status:" line is written,
\* and when the call has returned (after exhaustion or after a caught
\* transport failure), the primary stream is at the start of a line.
C1_LineClosedBeforeStatusFinalAndReturn ==
    /\ \A i \in 1..Len(stdout) :
         IsFinalMessageText(stdout[i]) => AtLineStart(SubSeq(stdout, 1, i - 1))
    /\ \A i \in 1..Len(stderr) :
         IsStatusLine(stderr[i]) => AtLineStart(WritesDuring(stdout, 1, stderr[i].ev))
    /\ pc = "returned" => AtLineStart(stdout)

\* An artifact chunk without a trailing newline was followed by a Final
\* Message, or by a status update, and the call has returned.
C1_Witness ==
    /\ pc = "returned"
    /\ Len(consumed) = 2
    /\ IsPlainArtifact(consumed[1])
    /\ consumed[1].update.artifact.parts = <<TextPart(<<"a">>)>>
    /\ IsFinalMessage(consumed[2])
    /\ consumed[2].parts # <<>>

\* C2: when the event sequence yields N events and then raises a transport
\* failure, the call returns without raising; the primary stream holds what
\* a call on those N events that ends by exhaustion writes, and the
\* diagnostic stream holds that call's diagnostics followed by the
\* connection-lost warning.
C2_TransportFailureContained ==
    (pc # "iter" /\ exc \in TransportFailures) =>
        LET r == Rendering(consumed)
            n == Len(consumed)
            diag == SubSeq(stderr, Len(r.err) + 1, Len(stderr))
        IN  /\ pc = "returned"
            /\ stdout = Finish(r.out, r.open, n + 1)
            /\ SubSeq(stderr, 1, Len(r.err)) = r.err
            /\ Len(diag) = 3
            /\ IsConnectionLostLine(diag[1])
            /\ diag[2].text = <<"  Server disconnected: ", exc>>

\* Two events were rendered, the second leaving a line open, and then the
\* sequence raised an httpx.ReadError.
C2_Witness ==
    /\ pc = "returned"
    /\ exc = "ReadError"
    /\ Len(consumed) = 2
    /\ artifact_open_line

\* C3: the "Task ID:" line is on the diagnostic stream exactly once as soon
\* as a task/update pair has been encountered, and it carries the task id
\* of the first pair, whatever ids later pairs carry.
C3_TaskIdAnnouncedOnce ==
    LET pairs == SelectSeq(consumed, IsPair)
        lines == SelectSeq(stderr, IsTaskIdLine)
    IN  IF pairs = <<>> THEN lines = <<>>
        ELSE /\ Len(lines) = 1
             /\ lines[1].text = <<"Task ID: ", pairs[1].task.id>>
             /\ lines[1].ev = CHOOSE k \in 1..Len(consumed) :
                    IsPair(consumed[k]) /\ \A j \in 1..(k - 1) : ~IsPair(consumed[j])

\* Two pairs with different task ids were handled.
C3_Witness ==
    /\ Len(consumed) = 2
    /\ IsPair(consumed[1]) /\ IsPair(consumed[2])
    /\ consumed[1].task.id # consumed[2].task.id

\* C4: an artifact update named "final_output_total" causes no write to the
\* primary stream, at any position in the event sequence.
C4_FinalOutputTotalWritesNothing ==
    \A k \in 1..Len(consumed) :
        IsNamed(consumed[k], "final_output_total") => WritesDuring(stdout, k, k) = <<>>

\* C5: after an artifact update named "tool_result" the open-line flag is
\* false, whatever it was before and whatever the update's parts are.
C5_ToolResultClosesLine ==
    (consumed # <<>> /\ IsNamed(Last(consumed), "tool_result")) => ~artifact_open_line

\* A tool result without a trailing newline arrived while a line was open.
C5_Witness ==
    /\ Len(consumed) = 2
    /\ IsPlainArtifact(consumed[1])
    /\ consumed[1].update.artifact.parts = <<TextPart(<<"a">>)>>
    /\ IsNamed(consumed[2], "tool_result")
    /\ consumed[2].update.artifact.parts = <<TextPart(<<"a">>)>>

\* C6: on each stream the writes stand in the order of the events that
\* produced them: no write of a later event precedes one of an earlier event.
C6_OutputInEventOrder ==
    /\ \A i, j \in 1..Len(stdout) : i < j => stdout[i].ev <= stdout[j].ev
    /\ \A i, j \in 1..Len(stderr) : i < j => stderr[i].ev <= stderr[j].ev

\* Two events each wrote to both streams.
C6_Witness ==
    /\ Len(consumed) = 2
    /\ \A k \in 1..2 :
         WritesDuring(stdout, k, k) # <<>> /\ WritesDuring(stderr, k, k) # <<>>

\* C7: in the interactive loop a failure while a submitted task is streaming
\* never ends the loop: main() is never left by an exception raised in
\* stream_task.
C7_StreamingFailureKeepsLoop == (shell = "exited" /\ pc = "raised") => crash = NoException

\* C8: an event that is none of the three known variants is silently
\* ignored: nothing is written to either stream for it, the open-line flag
\* and the cached task id stay as they were, and the loop goes on.
C8_UnknownEventIgnored ==
    (consumed # <<>> /\ IsUnknown(Last(consumed))) =>
        LET before == Rendering(Front(consumed))
        IN  /\ exc \in {NoException} \cup IteratorErrors
            /\ WritesDuring(stdout, Len(consumed), Len(consumed)) = <<>>
            /\ WritesDuring(stderr, Len(consumed), Len(consumed)) = <<>>
            /\ artifact_open_line = before.open
            /\ task_id = before.task_id

\* C9: an exception raised during the call that is no transport failure
\* leaves the call, and no connection-lost warning is written for it.
C9_OtherExceptionsPropagate ==
    (exc # NoException /\ exc \notin TransportFailures) =>
        /\ pc = "raised"
        /\ \A i \in 1..Len(stderr) : ~IsConnectionLostLine(stderr[i])

\* get_text failed on a status message after an event had been rendered.
C9_Witness ==
    /\ pc = "raised"
    /\ exc \in {"IndexError", "AttributeError"}
    /\ Len(consumed) = 2

\* C10: for a run of consecutive artifact updates named neither
\* "final_output_total" nor "tool_result", what is written to the primary
\* stream during the run is the concatenation of their text parts in order.
C10_ChunksConcatenated ==
    \A lo, hi \in 1..Len(consumed) :
        (lo <= hi /\ \A k \in lo..hi : IsPlainArtifact(consumed[k])) =>
            Flat(WritesDuring(stdout, lo, hi)) = ConcatChunks(SubSeq(consumed, lo, hi))

\* C11: for a Final Message a line break is written first if and only if
\* the open-line flag is set; then each text part is written as a line of
\* its own, in part order, and nothing is written for the other parts.
C11_FinalMessageRendering ==
    (consumed # <<>> /\ IsFinalMessage(Last(consumed))) =>
        LET k == Len(consumed)
            before == Rendering(Front(consumed))
            IsText(p) == p.type = "TextPart"
            texts == SelectSeq(Last(consumed).parts, IsText)
            written == WritesDuring(stdout, k, k)
            lead == IF before.open THEN 1 ELSE 0
        IN  /\ Len(written) = lead + Len(texts)
            /\ before.open => written[1] = Newline(k)
            /\ \A i \in 1..Len(texts) :
                 written[lead + i] = Write(texts[i].text, "bright_white", FALSE, TRUE, k)
            /\ WritesDuring(stderr, k, k) = <<>>

\* A Final Message of a non-text part and a text part arrived while an
\* artifact line was open.
C11_Witness ==
    /\ Len(consumed) = 2
    /\ IsPlainArtifact(consumed[1])
    /\ consumed[1].update.artifact.parts = <<TextPart(<<"a">>)>>
    /\ consumed[2] = Message(<<FilePart, TextPart(<<"a">>)>>)

\* A Final Message of two text parts arrived with no artifact line open.
C11_WitnessNoLead ==
    /\ Len(consumed) = 1
    /\ consumed[1] = Message(<<TextPart(<<"a">>), TextPart(<<>>)>>)

\* C13: after an artifact update named neither "final_output_total" nor
\* "tool_result" the open-line flag is set if and only if the last character
\* written to the primary stream is no newline, also for an update without
\* text parts or with empty text.
C13_FlagTracksLastCharacter ==
    (consumed # <<>> /\ IsPlainArtifact(Last(consumed)) /\ pc = "iter") =>
        (artifact_open_line <=> (Flat(stdout) # <<>> /\ Last(Flat(stdout)) # NL))

\* C14: on a caught transport failure the primary stream gets a closing
\* line break if and only if the open-line flag is set, then one blank
\* line; the diagnostic stream gets the connection-lost warning with the
\* failure detail.
C14_TransportFailureOutput ==
    (pc = "returned" /\ exc \in TransportFailures) =>
        LET k == Len(consumed) + 1
            diag == WritesDuring(stderr, k, k)
        IN  /\ WritesDuring(stdout, k, k)
                 = IF artifact_open_line THEN <<Newline(k), Newline(k)>>
                   ELSE <<Newline(k)>>
            /\ Len(diag) = 3
            /\ IsConnectionLostLine(diag[1])
            /\ diag[2].text = <<"  Server disconnected: ", exc>>
            /\ diag[3].text = <<"  The agent may have crashed or restarted.">>
            /\ LET out == WritesDuring(stdout, k, k)
               IN  /\ Len(closing) = Len(out) + 3
                   /\ \A i \in 1..Len(out) : closing[i] = [stream |-> "stdout", w |-> out[i]]
                   /\ \A i \in 1..3 : closing[Len(out) + i] = [stream |-> "stderr", w |-> diag[i]]
            /\ (consumed # <<>> /\ ChunkEndedLine(Last(consumed))) =>
                 WritesDuring(stdout, k, k) = <<Newline(k)>>

\* The sequence raised a transport failure once after a chunk that left the
\* line open and once after a chunk that ended in a newline.
C14_Witness ==
    /\ pc = "returned"
    /\ exc = "StreamError"
    /\ Len(consumed) = 2
    /\ IsPlainArtifact(consumed[1])
    /\ IsPlainArtifact(consumed[2])
    /\ artifact_open_line
    /\ consumed[1].update.artifact.parts = <<TextPart(<<NL>>)>>

C14_WitnessClosed ==
    /\ pc = "returned"
    /\ exc = "A2AClientError"
    /\ consumed # <<>>
    /\ ChunkEndedLine(Last(consumed))

\* C15: on normal exhaustion the primary stream gets a closing line break
\* if and only if the open-line flag is still set, then one blank line, and
\* the diagnostic stream gets nothing.
C15_ExhaustionOutput ==
    (pc = "returned" /\ exc = NoException) =>
        LET k == Len(consumed) + 1
        IN  /\ WritesDuring(stdout, k, k)
                 = IF artifact_open_line THEN <<Newline(k), Newline(k)>>
                   ELSE <<Newline(k)>>
            /\ WritesDuring(stderr, k, k) = <<>>

\* The sequence ended while an artifact line was open.
C15_Witness ==
    /\ pc = "returned"
    /\ exc = NoException
    /\ artifact_open_line
    /\ Len(consumed) = 2
    /\ IsStatusUpdate(consumed[1])

\* C16: a status update writes the line "Status: <state>" to the diagnostic
\* stream and after it the message text if and only if a message with
\* non-empty text comes with it; without a message, or with a message
\* without text, only the state line is written and the call does not fail.
C16_StatusRendering ==
    (consumed # <<>> /\ IsStatusUpdate(Last(consumed))) =>
        LET k == Len(consumed)
            status == Last(consumed).update.status
            text == IF status.message = None THEN <<>>
                    ELSE ConcatText(status.message.parts)
            NotTaskId(w) == ~IsTaskIdLine(w)
            lines == SelectSeq(WritesDuring(stderr, k, k), NotTaskId)
        IN  /\ exc \notin {"IndexError", "AttributeError"}
            /\ Len(lines) = IF text # <<>> THEN 2 ELSE 1
            /\ lines[1].text = <<"Status: ", status.state>>
            /\ text # <<>> => lines[2].text = text

\* C17: an artifact update named "final_output_total" is skipped entirely:
\* nothing is written to either stream for it, and the open-line flag and
\* the cached task id stay as they were.
C17_FinalOutputTotalSkipped ==
    (consumed # <<>> /\ IsNamed(Last(consumed), "final_output_total")) =>
        LET k == Len(consumed)
            before == Rendering(Front(consumed))
        IN  /\ WritesDuring(stdout, k, k) = <<>>
            /\ WritesDuring(stderr, k, k) = <<>>
            /\ artifact_open_line = before.open
            /\ task_id = before.task_id

\* C18: a call calls client.send_message exactly once, also after a
\* transport failure, and it returns for every finite event sequence: it is
\* left by an exception only when the sequence itself raises one that is no
\* transport failure.
C18_OneSendAndReturns ==
    /\ sends = 1
    /\ pc = "raised" => (exc \in IteratorErrors /\ exc \notin TransportFailures)

\* C12: handle_slash_command returns False exactly when the command word,
\* whatever its case, is /quit or /exit, and the session is then
\* disconnected when it returns; for every other command, unknown ones and
\* /connect without an argument included, it returns True.
C12_ReturnsFalseOnlyOnQuit ==
    (IsCommand(user_input) /\ shell \in {"prompt", "break"}) =>
        /\ should_continue = FALSE <=> user_input.words[1] \in QuitWords
        /\ should_continue = FALSE =>
             /\ ~IsConnected(session)
             /\ session = NewSession
             /\ http_open = {}

\* /QUIT was entered right after a successful /connect.
C12_Witness ==
    /\ shell = "break"
    /\ user_input.words = <<"/QUIT">>
    /\ inputs = 2
    /\ created.uuids = 1
    /\ should_continue = FALSE

\* C19: in the loop a line that starts with "/" is never sent to the agent;
\* a blank line changes nothing; other text starts a stream_task call if
\* and only if the session is connected, and when it is not connected
\* nothing is sent and the session stays as it is.
C19_InputRouting ==
    [][ (shell = "prompt" /\ inputs' = inputs + 1 /\ GotLine(user_input')) =>
          /\ IsCommand(user_input') =>
               /\ shell' # "streaming"
               /\ UNCHANGED callvars
          /\ IsBlank(user_input') =>
               UNCHANGED <<callvars, shell, session, http_open, created, crash>>
          /\ IsOtherText(user_input') =>
               /\ shell' = "streaming" <=> IsConnected(session)
               /\ IsConnected(session) => (sends' = 1 /\ pc' = "iter")
               /\ ~IsConnected(session) =>
                    UNCHANGED <<callvars, shell, session, http_open, created, crash>>
      ]_vars

\* Text was forwarded as the third input, after a successful /connect.
C19_Witness ==
    /\ shell = "streaming"
    /\ IsOtherText(user_input)
    /\ inputs = 3
    /\ sends = 1
    /\ consumed = <<>>

\* Text was entered while no agent was connected.
C19_WitnessNotConnected ==
    /\ shell = "prompt"
    /\ IsOtherText(user_input)
    /\ ~IsConnected(session)
    /\ sends = 0

\* C20: every submission carries the session's context id, which only
\* /reset, /new, /connect, /disconnect and leaving the loop change, so that
\* the submissions between a successful connect and the next of these
\* commands carry the same id; no step of a streaming call, its last step
\* after exhaustion or after an exception included, changes the session;
\* /reset and /new while connected give an id that was never used before.
C20_ContextIdStable ==
    [][ /\ (shell = "prompt" /\ shell' = "streaming") =>
             /\ context_id' = session.context_id
             /\ session' = session
        /\ (shell = "streaming" /\ pc = "iter") => session' = session
        /\ session'.context_id # session.context_id =>
             \/ shell' \in {"break", "exited"}
             \/ /\ shell = "prompt"
                /\ IsCommand(user_input')
                /\ user_input'.words[1] \in {"/reset", "/new", "/connect", "/disconnect"}
        /\ ( /\ shell = "prompt"
             /\ inputs' = inputs + 1
             /\ IsCommand(user_input')
             /\ user_input'.words[1] \in {"/reset", "/new"}
             /\ IsConnected(session) ) =>
               /\ session'.context_id # session.context_id
               /\ session'.context_id > created.uuids
               /\ IsConnected(session')
      ]_vars

\* A task was submitted after /connect and /reset: it carries the second id.
C20_Witness ==
    /\ shell = "streaming"
    /\ inputs = 3
    /\ context_id = 2
    /\ session.context_id = 2

\* A call that carried the session's id has ended by an exception.
C20_WitnessCallRaised ==
    /\ shell = "streaming"
    /\ pc = "raised"
    /\ exc \in TransportFailures
    /\ context_id = session.context_id
    /\ context_id # 0

\* C23: every write to the diagnostic stream is made while no artifact
\* line is open, stated for the writes of the latest event and of the end
\* of the call: the Task ID line while the open-line flag is false and
\* before anything of its event's artifact is written; the Status line and
\* the status message in an event that has closed the line with a line
\* break if the flag was set; the connection-lost warning after the closing
\* writes of the except clause.  The primary stream is then at the start of
\* a line.
C23_DiagnosticsAtLineStart ==
    /\ consumed # <<>> =>
         LET k == Len(consumed)
             diag == WritesDuring(stderr, k, k)
             NotTaskId(w) == ~IsTaskIdLine(w)
             before == Rendering(Front(consumed))
         IN  /\ (diag # <<>> /\ IsTaskIdLine(diag[1])) =>
                  /\ ~before.open
                  /\ AtLineStart(before.out)
             /\ SelectSeq(diag, NotTaskId) # <<>> =>
                  /\ IsStatusUpdate(consumed[k])
                  /\ before.open => Last(WritesDuring(stdout, k, k)) = Newline(k)
                  /\ AtLineStart(WritesDuring(stdout, 1, k))
                  /\ ~artifact_open_line
    /\ WritesDuring(stderr, Len(consumed) + 1, Len(consumed) + 1) # <<>> =>
         /\ AtLineStart(stdout)
         /\ \A i, j \in 1..Len(closing) :
              (closing[i].stream = "stderr" /\ closing[j].stream = "stdout") => j < i

\* A status update with a message and then an artifact chunk that leaves the
\* line open were handled, and the sequence raised a transport failure: all
\* four kinds of diagnostic writes were made.
C23_Witness ==
    /\ pc = "returned"
    /\ exc \in TransportFailures
    /\ Len(consumed) = 2
    /\ IsStatusUpdate(consumed[1])
    /\ consumed[1].update.status.message = Message(<<TextPart(<<"a">>)>>)
    /\ IsPlainArtifact(consumed[2])
    /\ artifact_open_line
    /\ Len(stderr) = 6

\* The command of the latest line without its case, whether it has an
\* argument, and whether handle_slash_command has returned for it.
CommandOf(inp) == IF inp.words[1] = "/QUIT" THEN "/quit" ELSE inp.words[1]
HasArgument(inp) == Len(inp.words) > 1
\* A step in which the prompt gives a command and handle_slash_command
\* returns for it (a /connect that is interrupted does not return).
CommandReturns ==
    /\ shell = "prompt"
    /\ inputs' = inputs + 1
    /\ IsCommand(user_input')
    /\ ~(CommandOf(user_input') = "/connect" /\ shell' \in {"break", "exited"})
AllSet(sess) ==
    /\ sess.client # 0
    /\ sess.httpx_client # 0
    /\ sess.agent_card # "None"
    /\ sess.agent_url # "None"
    /\ sess.context_id # 0
AllNone(sess) ==
    /\ sess.client = 0
    /\ sess.httpx_client = 0
    /\ sess.agent_card = "None"
    /\ sess.agent_url = "None"
    /\ sess.context_id = 0

\* C21: whenever the loop is back at the prompt after the commands handled
\* so far, or a task is streaming, the session is consistent: the client is
\* set if and only if all five fields are set, and when it is not set all
\* five are None; a call of stream_task has got a client and a context id.
C21_SessionConsistent ==
    (shell \in {"prompt", "streaming"}) =>
        /\ session.client # 0 <=> AllSet(session)
        /\ session.client = 0 => AllNone(session)
        /\ shell = "streaming" => (session.client # 0 /\ context_id # 0)

\* A second /connect succeeded after a first one, and a task is streaming.
C21_Witness ==
    /\ shell = "streaming"
    /\ inputs = 3
    /\ created.clients = 2
    /\ AllSet(session)

\* The session is disconnected again after a successful /connect.
C21_WitnessDisconnected ==
    /\ shell = "prompt"
    /\ created.uuids = 1
    /\ AllNone(session)
    /\ user_input.words = <<"/disconnect">>

\* C22: connect that fails at any step returns False and leaves the session
\* fully disconnected with no AsyncClient open: the one it made is closed,
\* and so is the one of a connection that existed before, which is not
\* restored.
C22_FailedConnectCleansUp ==
    [][ /\ \A url \in Urls, o \in ConnectOutcomes \ {"ok"} :
             LET r == Connect(TheWorld, url, o)
             IN  /\ r.ok = FALSE
                 /\ AllNone(r.world.session)
                 /\ r.world.http_open = {}
        /\ (CommandReturns /\ CommandOf(user_input') = "/connect" /\ HasArgument(user_input')) =>
             /\ AllSet(session') \/ (AllNone(session') /\ http_open' = {})
             /\ AllSet(session') =>
                  /\ session'.agent_url = user_input'.words[2]
                  /\ http_open' = {session'.httpx_client}
             /\ session.httpx_client # 0 =>
                  /\ session.httpx_client \notin http_open'
                  /\ session'.httpx_client # session.httpx_client
      ]_vars

\* A /connect failed while the session was connected to another agent: a
\* second AsyncClient was made and none is open.
C22_Witness ==
    /\ shell = "prompt"
    /\ inputs = 2
    /\ Len(user_input.words) = 2
    /\ created.clients = 2
    /\ created.uuids = 1
    /\ AllNone(session)
    /\ http_open = {}

\* C24: /help, /?, /status, /card, an unknown command, /connect without an
\* argument, and /disconnect, /reset, /new, /quit or /exit while not
\* connected leave every field of the session as it is; the session changes
\* only by /connect <url>, or by /disconnect, /reset, /new, /quit or /exit
\* while connected.
C24_CommandFrame ==
    [][ CommandReturns =>
          LET cmd == CommandOf(user_input')
              arg == HasArgument(user_input')
              connected == session.client # 0
          IN  /\ ( \/ cmd \in {"/help", "/?", "/status", "/card", "/bogus"}
                   \/ (cmd = "/connect" /\ ~arg)
                   \/ (cmd \in {"/disconnect", "/reset", "/new", "/quit", "/exit"} /\ ~connected) )
                   => UNCHANGED <<session, http_open, created>>
              /\ session' # session =>
                   \/ (cmd = "/connect" /\ arg)
                   \/ (cmd \in {"/disconnect", "/reset", "/new", "/quit", "/exit"} /\ connected)
      ]_vars

\* /reset was entered while not connected, after a /connect and a
\* /disconnect.
C24_Witness ==
    /\ shell = "prompt"
    /\ inputs = 3
    /\ user_input.words = <<"/reset">>
    /\ created.uuids = 1
    /\ AllNone(session)

\* C25: at most one AsyncClient made by the session is open at a time, an
\* open one is the one the session references, and when main() has ended,
\* by whatever way out of the loop, none is open.
C25_NoClientLeftOpen ==
    /\ Cardinality(http_open) <= 1
    /\ http_open \subseteq {session.httpx_client}
    /\ shell = "exited" => http_open = {}

====
